---- MODULE Spec2Model ----
(***************************************************************************)
(* Model of airiss_v3_api.py: the in-memory DataStore (files, jobs,        *)
(* results) and the HTTP handlers that read and write it.                  *)
(*                                                                         *)
(* Strings that the code inspects (file names, column names) are           *)
(* sequences of Unicode code points, so that endswith, lower and `in` are  *)
(* computed as Python computes them.  Python dicts are functions from      *)
(* string keys to values.  Progress percentages are kept in tenths of a    *)
(* percent (25.0 is 250).                                                  *)
(*                                                                         *)
(* Every handler is an `async def`; the only await is `await file.read()`  *)
(* in upload_file, so every other handler runs to completion in one step   *)
(* of the event loop and upload_file runs in two.  uuid.uuid4() is taken   *)
(* to return an identifier that no earlier call returned.                  *)
(***************************************************************************)
EXTENDS Integers, Sequences, FiniteSets, TLC

\* ---------------------------------------------------------------- bounds
MaxIds == 3          \* identifiers uuid4 can hand out in one run
MaxRows == 1         \* rows of an uploaded table
MaxHandlers == 2     \* upload handlers that can be suspended at the await
MaxSample == 0       \* largest explicit sample_size of a request
MaxProcessed == 1    \* largest "processed" value an update carries
MaxResults == 1      \* longest "results" list an update carries
MaxTime == 0         \* latest value of datetime.now()
MaxUnits == 40       \* counters of the progress computation

\* ------------------------------------------------------ program constants
DefaultSampleSize == 25

UUIDs == 1..MaxIds
Times == 0..MaxTime
Handlers == 1..MaxHandlers

\* Python None
None == [none |-> TRUE]

\* ------------------------------------------------------------ str helpers
\* str.endswith
EndsWith(s, suffix) ==
    /\ Len(s) >= Len(suffix)
    /\ SubSeq(s, Len(s) - Len(suffix) + 1, Len(s)) = suffix

\* str.lower on the code points the model uses (A-Z -> a-z)
LowerChar(c) == IF c >= 65 /\ c <= 90 THEN c + 32 ELSE c

Lower(s) == [i \in 1..Len(s) |-> LowerChar(s[i])]

\* word in s
Contains(s, word) ==
    \E i \in 1..(Len(s) + 1) :
        /\ i + Len(word) - 1 <= Len(s)
        /\ SubSeq(s, i, i + Len(word) - 1) = word

DotXlsx == <<46, 120, 108, 115, 120>>
DotXls == <<46, 120, 108, 115>>
DotCsv == <<46, 99, 115, 118>>

\* ['의견', 'opinion', '평가', 'feedback']
OpinionWords ==
    { <<51032, 44204>>,
      <<111, 112, 105, 110, 105, 111, 110>>,
      <<54217, 44032>>,
      <<102, 101, 101, 100, 98, 97, 99, 107>> }

\* ----------------------------------------------------------------- inputs
\* A value that is a str, and one that is not (None as a file name, a number
\* as the label of an Excel column).
Str(text) == [str |-> TRUE, text |-> text]

NotStr == [str |-> FALSE, text |-> <<>>]

\* file.filename
NameXlsx == Str(<<97, 46, 120, 108, 115, 120>>)      \* "a.xlsx"

NameXls == Str(<<97, 46, 120, 108, 115>>)            \* "a.xls"

NameCsv == Str(<<97, 46, 99, 115, 118>>)             \* "a.csv"

NameTxt == Str(<<97, 46, 116, 120, 116>>)            \* "a.txt"

\* columns "name", "Opinion"
StrColumns ==
    << Str(<<110, 97, 109, 101>>), Str(<<79, 112, 105, 110, 105, 111, 110>>) >>

\* a sheet whose second header cell is a number
MixedColumns == << Str(<<54217, 44032, 51216, 49688>>), NotStr >>

\* The bytes of an upload: a workbook, a CSV text, or neither.
Excel(nrows, columns) ==
    [format |-> "excel", table |-> [nrows |-> nrows, columns |-> columns]]

Csv(nrows, columns) ==
    [format |-> "csv", table |-> [nrows |-> nrows, columns |-> columns]]

Garbage == [format |-> "garbage"]

Upload(filename, bytes) == [filename |-> filename, bytes |-> bytes]

\* The uploads of the model: for each path through upload_file one upload
\* that takes it, the successful ones with every row count.
UploadFiles ==
    {Upload(NameXlsx, Excel(n, StrColumns)) : n \in 0..MaxRows}
    \cup {Upload(NameCsv, Csv(n, StrColumns)) : n \in 0..MaxRows}
    \cup { Upload(NameXls, Excel(0, MixedColumns)),
           Upload(NameCsv, Garbage),
           Upload(NameTxt, Csv(0, StrColumns)),
           Upload(NotStr, Csv(0, StrColumns)) }

SampleSizes == (-1..MaxSample) \cup {DefaultSampleSize}

\* ------------------------------------------------------------------ state
VARIABLES
    files,      \* store.files
    jobs,       \* store.jobs
    results,    \* store.results
    handlers,   \* upload_file coroutines suspended at `await file.read()`
    last        \* the call that ran last: its name, argument and return value

vars == <<files, jobs, results, handlers, last>>

Idle == [pc |-> "idle"]

Call(op, arg, ret) == [op |-> op, arg |-> arg, ret |-> ret]

\* --------------------------------------------------------------- DataStore
add_file(fs, file_id, data) ==
    [k \in DOMAIN fs \cup {file_id} |-> IF k = file_id THEN data ELSE fs[k]]

get_file(file_id) ==
    IF file_id \in DOMAIN files THEN files[file_id] ELSE None

add_job(js, job_id, data) ==
    [k \in DOMAIN js \cup {job_id} |-> IF k = job_id THEN data ELSE js[k]]

get_job(job_id) ==
    IF job_id \in DOMAIN jobs THEN jobs[job_id] ELSE None

\* dict.update
DictUpdate(d, updates) ==
    [k \in DOMAIN d \cup DOMAIN updates |->
        IF k \in DOMAIN updates THEN updates[k] ELSE d[k]]

\* variant: the updates reach every stored record
update_job_all(js, job_id, updates) ==
    [k \in DOMAIN js |-> DictUpdate(js[k], updates)]

\* variant: only the "processed" key of the updates is written
update_job_torn(js, job_id, updates) ==
    IF job_id \in DOMAIN js
    THEN [js EXCEPT ![job_id] =
            DictUpdate(js[job_id],
                       [k \in DOMAIN updates \cap {"processed"} |-> updates[k]])]
    ELSE js

update_job(js, job_id, updates) ==
    IF job_id \in DOMAIN js
    THEN [js EXCEPT ![job_id] = DictUpdate(js[job_id], updates)]
    ELSE js

\* uuid.uuid4(): the identifiers it can still return
uuid4 == UUIDs \ (DOMAIN files \cup DOMAIN jobs)

Init ==
    /\ files = <<>>
    /\ jobs = <<>>
    /\ results = <<>>
    /\ handlers = [h \in Handlers |-> Idle]
    /\ last = Call("init", None, None)

\* ------------------------------------------------------------ upload_file
Raised == [raised |-> TRUE]

Unsupported == [unsupported |-> TRUE]

ErrUnsupported == [error |-> "only Excel(.xlsx, .xls) or CSV files"]

ErrProcessing == [error |-> "error while processing the file"]

\* pd.read_excel(io.BytesIO(contents))
read_excel(contents) ==
    IF contents.format = "excel" THEN contents.table ELSE Raised

\* pd.read_csv(io.BytesIO(contents))
read_csv(contents) ==
    IF contents.format = "csv" THEN contents.table ELSE Raised

\* step 3: the DataFrame, Unsupported for the else branch, Raised when
\* filename is None (None has no endswith) or the parser raises
read_frame(filename, contents) ==
    IF ~filename.str THEN Raised
    ELSE IF EndsWith(filename.text, DotXlsx) \/ EndsWith(filename.text, DotXls)
         THEN read_excel(contents)
    ELSE IF EndsWith(filename.text, DotCsv) THEN read_csv(contents)
    ELSE Unsupported

\* variant: len(df.columns)
total_records_columns(df) == Len(df.columns)

\* len(df)
total_records(df) == df.nrows

IsOpinion(col) == \E word \in OpinionWords : Contains(Lower(col.text), word)

\* step 6: col.lower() raises for a label that is not a str
LowerRaises(columns) == \E i \in 1..Len(columns) : ~columns[i].str

opinion_columns(columns) == SelectSeq(columns, IsOpinion)

file_record(file, df, now) ==
    [dataframe |-> df,
     filename |-> file.filename,
     upload_time |-> now,
     total_records |-> total_records(df),
     columns |-> df.columns,
     opinion_columns |-> opinion_columns(df.columns)]

upload_success(file, df, file_id) ==
    [success |-> TRUE,
     file_id |-> file_id,
     filename |-> file.filename,
     total_records |-> total_records(df),
     columns_found |-> Len(df.columns),
     opinion_columns |-> opinion_columns(df.columns),
     message |-> total_records(df)]

\* variant: the record is stored before the opinion columns are looked for
upload_body_early_store(fs, file, file_id, now) ==
    LET df == read_frame(file.filename, file.bytes) IN
    IF df = Unsupported THEN [ret |-> ErrUnsupported, files |-> fs]
    ELSE IF df = Raised THEN [ret |-> ErrProcessing, files |-> fs]
    ELSE IF LowerRaises(df.columns)
         THEN [ret |-> ErrProcessing,
               files |-> add_file(fs, file_id, file_record(file, df, now))]
    ELSE [ret |-> upload_success(file, df, file_id),
          files |-> add_file(fs, file_id, file_record(file, df, now))]

\* The handler after the await: its return value and store.files after it.
upload_body(fs, file, file_id, now) ==
    LET df == read_frame(file.filename, file.bytes) IN
    IF df = Unsupported THEN [ret |-> ErrUnsupported, files |-> fs]
    ELSE IF df = Raised THEN [ret |-> ErrProcessing, files |-> fs]
    ELSE IF LowerRaises(df.columns)
         THEN [ret |-> ErrProcessing, files |-> fs]
    ELSE [ret |-> upload_success(file, df, file_id),
          files |-> add_file(fs, file_id, file_record(file, df, now))]

\* the handler reaches uuid.uuid4() (line 97)
ReachesUuid(file) ==
    read_frame(file.filename, file.bytes) \notin {Unsupported, Raised}

\* upload_file up to `contents = await file.read()`
UploadBegin(h, file) ==
    /\ handlers[h] = Idle
    /\ handlers' = [handlers EXCEPT ![h] = [pc |-> "read", file |-> file]]
    /\ last' = Call("upload_file.await", file, None)
    /\ UNCHANGED <<files, jobs, results>>

\* upload_file from the await to its return
UploadFinish(h) ==
    /\ handlers[h] # Idle
    /\ LET file == handlers[h].file IN
       \E file_id \in (IF ReachesUuid(file) THEN uuid4 ELSE {0}), now \in Times :
          LET out == upload_body(files, file, file_id, now) IN
          /\ files' = out.files
          /\ last' = Call("upload_file", file, out.ret)
    /\ handlers' = [handlers EXCEPT ![h] = Idle]
    /\ UNCHANGED <<jobs, results>>

\* --------------------------------------------------------- start_analysis
ErrFileNotFound == [error |-> "file not found"]

AnalysisRequests == [file_id : UUIDs, sample_size : SampleSizes]

\* variant: the lookup result is not tested
analyze_found_always(file_id) == TRUE

\* `if not file_data` is false: file_data is a non-empty dict
analyze_found(file_id) == get_file(file_id) # None

\* variant: the job is stored as completed
new_job_completed(request, now) ==
    [status |-> "completed",
     file_id |-> request.file_id,
     sample_size |-> request.sample_size,
     start_time |-> now,
     total |-> request.sample_size,
     processed |-> 0,
     results |-> <<>>]

new_job(request, now) ==
    [status |-> "processing",
     file_id |-> request.file_id,
     sample_size |-> request.sample_size,
     start_time |-> now,
     total |-> request.sample_size,
     processed |-> 0,
     results |-> <<>>]

start_analysis(request) ==
    /\ IF ~analyze_found(request.file_id)
       THEN /\ last' = Call("start_analysis", request, ErrFileNotFound)
            /\ jobs' = jobs
       ELSE \E job_id \in uuid4, now \in Times :
            /\ jobs' = add_job(jobs, job_id, new_job(request, now))
            /\ last' = Call("start_analysis", request,
                            [success |-> TRUE, job_id |-> job_id])
    /\ UNCHANGED <<files, results, handlers>>

\* ----------------------------------------------------------- check_status
ErrJobNotFound == [error |-> "job not found"]

\* variant: the tenths are truncated
RoundTenths_trunc(num, den) == (10 * num) \div den

\* round(x, 1) of the quotient num / den, den > 0, in tenths:
\* to the nearest tenth, a tie to the even one
RoundTenths(num, den) ==
    LET q == (10 * num) \div den
        r == (10 * num) % den
    IN IF 2 * r > den \/ (2 * r = den /\ q % 2 = 1) THEN q + 1 ELSE q

\* lines 177-179 and the round of line 183, in tenths of a percent
Progress(job_data) ==
    IF job_data["total"] > 0
    THEN RoundTenths(job_data["processed"] * 100, job_data["total"])
    ELSE 0

\* variant: an unknown job is reported as a job without progress
check_status_ret_default(job_data) ==
    IF job_data = None
    THEN [status |-> "processing", progress |-> 0, processed |-> 0,
          total |-> 0, message |-> <<0, 0>>]
    ELSE [status |-> job_data["status"],
          progress |-> Progress(job_data),
          processed |-> job_data["processed"],
          total |-> job_data["total"],
          message |-> <<job_data["processed"], job_data["total"]>>]

check_status_ret(job_data) ==
    IF job_data = None THEN ErrJobNotFound
    ELSE [status |-> job_data["status"],
          progress |-> Progress(job_data),
          processed |-> job_data["processed"],
          total |-> job_data["total"],
          message |-> <<job_data["processed"], job_data["total"]>>]

check_status(job_id) ==
    /\ last' = Call("check_status", job_id, check_status_ret(get_job(job_id)))
    /\ UNCHANGED <<files, jobs, results, handlers>>

\* ------------------------------------------------------- download_results
ErrNotReady == [error |-> "analysis not finished"]

DownloadReady == [message |-> "download ready", filename |-> "AIRISS.xlsx"]

\* variant: the status is not tested
download_ret_any(job_data) ==
    IF job_data = None THEN ErrJobNotFound ELSE DownloadReady

download_ret(job_data) ==
    IF job_data = None THEN ErrJobNotFound
    ELSE IF job_data["status"] # "completed" THEN ErrNotReady
    ELSE DownloadReady

download_results(job_id) ==
    /\ last' = Call("download_results", job_id, download_ret(get_job(job_id)))
    /\ UNCHANGED <<files, jobs, results, handlers>>

\* ------------------------------------------------- DataStore.update_job
Statuses == {"processing", "completed", "failed"}

ResultLists == {[i \in 1..n |-> "item"] : n \in 0..MaxResults}

UpdKeys == {"status", "processed", "results"}

\* the dicts a caller passes as `updates`
UpdateDicts ==
    { [k \in K |-> full[k]] :
        full \in [status : Statuses, processed : 0..MaxProcessed,
                  results : ResultLists],
        K \in SUBSET UpdKeys }

UpdateJob(job_id, updates) ==
    /\ jobs' = update_job(jobs, job_id, updates)
    /\ last' = Call("update_job", <<job_id, updates>>, None)
    /\ UNCHANGED <<files, results, handlers>>

\* ------------------------------------------------------------- main_page
main_page ==
    /\ last' = Call("main_page", None, [message |-> "welcome"])
    /\ UNCHANGED <<files, jobs, results, handlers>>

\* ----------------------------------------------------------- health_check
health_check ==
    /\ last' = Call("health_check", None,
                    [status |-> "healthy", version |-> "3.0.0"])
    /\ UNCHANGED <<files, jobs, results, handlers>>

\* The HTTP surface.
Next ==
    \/ main_page
    \/ health_check
    \/ \E h \in Handlers, file \in UploadFiles : UploadBegin(h, file)
    \/ \E h \in Handlers : UploadFinish(h)
    \/ \E request \in AnalysisRequests : start_analysis(request)
    \/ \E job_id \in UUIDs : check_status(job_id)
    \/ \E job_id \in UUIDs : download_results(job_id)

Spec == Init /\ [][Next]_vars

\* The job registry on its own: the store after one successful upload (which
\* identifier it got does not matter, identifiers are only compared), the
\* handlers that read or write store.jobs, and callers of
\* DataStore.update_job (the commented-out process_analysis would be one).
\* upload_file never reads or writes store.jobs.
InitStore ==
    /\ \E now \in Times :
          LET file_id == CHOOSE id \in UUIDs : TRUE
              file == Upload(NameXlsx, Excel(MaxRows, StrColumns))
              out == upload_body(<<>>, file, file_id, now)
          IN /\ files = out.files
             /\ last = Call("upload_file", file, out.ret)
    /\ jobs = <<>>
    /\ results = <<>>
    /\ handlers = [h \in Handlers |-> Idle]

NextStore ==
    \/ \E request \in AnalysisRequests : start_analysis(request)
    \/ \E job_id \in UUIDs : check_status(job_id)
    \/ \E job_id \in UUIDs : download_results(job_id)
    \/ \E job_id \in UUIDs, updates \in UpdateDicts : UpdateJob(job_id, updates)

SpecStore == InitStore /\ [][NextStore]_vars

\* The progress computation on its own: the store holds one dataset and one
\* job whose counters are drawn from 0..MaxUnits (total also -1), as
\* start_analysis and update_job can leave them; check_status reads it.
InitProgress ==
    /\ \E file_id \in UUIDs, job_id \in UUIDs, now \in Times,
          total \in -1..MaxUnits, processed \in 0..MaxUnits :
          LET file == Upload(NameXlsx, Excel(MaxRows, StrColumns))
              out == upload_body(<<>>, file, file_id, now)
              request == [file_id |-> file_id, sample_size |-> total]
          IN /\ file_id # job_id
             /\ files = out.files
             /\ jobs = update_job(add_job(<<>>, job_id, new_job(request, now)),
                                  job_id, [processed |-> processed])
             /\ last = Call("update_job",
                            <<job_id, [processed |-> processed]>>, None)
    /\ results = <<>>
    /\ handlers = [h \in Handlers |-> Idle]

NextProgress == \E job_id \in UUIDs : check_status(job_id)

SpecProgress == InitProgress /\ [][NextProgress]_vars

\* ================================================================ claims

Stored == DOMAIN files \cup DOMAIN jobs

IsError(ret) == "error" \in DOMAIN ret

\* C1: a start-analysis request for a dataset id that no upload has stored
\* returns the file-not-found error and leaves store.jobs as it was.
C1_UnknownDatasetCreatesNoJob ==
    [][ (last'.op = "start_analysis" /\ last'.arg.file_id \notin DOMAIN files)
        => (last'.ret = ErrFileNotFound /\ jobs' = jobs) ]_vars

C1_Witness ==
    /\ last.op = "start_analysis"
    /\ last.arg.file_id \notin DOMAIN files
    /\ last.ret = ErrFileNotFound
    /\ files # <<>>
    /\ jobs # <<>>

\* C2: every stored job record has 0 <= processed <= total.
C2_CountersInRange ==
    \A job_id \in DOMAIN jobs :
        /\ 0 <= jobs[job_id]["processed"]
        /\ jobs[job_id]["processed"] <= jobs[job_id]["total"]

\* C3: download of an unknown job id returns job-not-found, of a job whose
\* status is not completed returns not-ready, and returns the artifact only
\* for a job whose status is completed.
C3_DownloadOnlyWhenCompleted ==
    last.op = "download_results" =>
        /\ last.arg \notin DOMAIN jobs => last.ret = ErrJobNotFound
        /\ (last.arg \in DOMAIN jobs /\ jobs[last.arg]["status"] # "completed")
              => last.ret = ErrNotReady
        /\ last.ret = DownloadReady
              => (last.arg \in DOMAIN jobs
                  /\ jobs[last.arg]["status"] = "completed")

C3_Witness ==
    /\ last.op = "download_results"
    /\ last.arg \in DOMAIN jobs
    /\ jobs[last.arg]["status"] = "processing"
    /\ jobs[last.arg]["processed"] = 0
    /\ last.ret = ErrNotReady
    /\ \E other \in DOMAIN jobs : jobs[other]["status"] = "completed"

\* C4: a successful upload returns an id that no dataset and no job holds, and
\* the record stored under it has total_records equal to the number of rows
\* of the uploaded table.
C4_FreshIdAndRowCount ==
    [][ (last'.op = "upload_file" /\ ~IsError(last'.ret))
        => /\ last'.ret.file_id \notin Stored
           /\ last'.ret.file_id \in DOMAIN files'
           /\ files'[last'.ret.file_id].total_records
                 = last'.arg.bytes.table.nrows
           /\ last'.ret.total_records = last'.arg.bytes.table.nrows ]_vars

\* the second of two uploads has returned while another handler, begun before
\* it returned, is still suspended at the await
C4_Witness ==
    /\ last.op = "upload_file"
    /\ ~IsError(last.ret)
    /\ Cardinality(DOMAIN files) = 2
    /\ \E a, b \in DOMAIN files :
          files[a].total_records # files[b].total_records
    /\ \E h \in Handlers : handlers[h] # Idle

\* C5: an upload with an unsupported extension, or whose parsing raises,
\* returns an error payload, and an upload that returns an error payload
\* leaves store.files and store.jobs as they were.
C5_FailedUploadNoState ==
    [][ last'.op = "upload_file"
        => /\ (last'.arg.filename \notin {NameXlsx, NameXls, NameCsv}
               \/ last'.arg.bytes = Garbage) => IsError(last'.ret)
           /\ IsError(last'.ret) => (files' = files /\ jobs' = jobs) ]_vars

C5_Witness ==
    /\ last.op = "upload_file"
    /\ last.ret = ErrProcessing
    /\ last.arg.bytes # Garbage
    /\ files # <<>>

\* C6: check_status and download_results leave store.files and store.jobs
\* unchanged, so get_job and get_file return after them what they returned
\* before, and for an id that store.jobs does not hold they return the
\* job-not-found payload.
C6_ReadsArePure ==
    [][ last'.op \in {"check_status", "download_results"}
        => /\ files' = files
           /\ jobs' = jobs
           /\ \A id \in UUIDs :
                 /\ get_job(id)' = get_job(id)
                 /\ get_file(id)' = get_file(id)
           /\ last'.arg \notin DOMAIN jobs => last'.ret = ErrJobNotFound
           /\ last'.arg \in DOMAIN jobs => last'.ret # ErrJobNotFound ]_vars

C6_Witness ==
    /\ last.op = "check_status"
    /\ last.arg \notin DOMAIN jobs
    /\ last.ret = ErrJobNotFound
    /\ jobs # <<>>

\* C7: update_job on a stored id sets exactly the keys of `updates` in that
\* record and leaves its other keys, the other job records and the dataset
\* records as they were; on an id that is not stored it changes nothing.
C7_UpdateFrame ==
    [][ last'.op = "update_job"
        => LET job_id == last'.arg[1]
               updates == last'.arg[2]
           IN /\ files' = files
              /\ DOMAIN jobs' = DOMAIN jobs
              /\ \A other \in DOMAIN jobs \ {job_id} : jobs'[other] = jobs[other]
              /\ job_id \in DOMAIN jobs
                    => /\ DOMAIN jobs'[job_id]
                             = DOMAIN jobs[job_id] \cup DOMAIN updates
                       /\ \A k \in DOMAIN updates : jobs'[job_id][k] = updates[k]
                       /\ \A k \in DOMAIN jobs[job_id] \ DOMAIN updates :
                             jobs'[job_id][k] = jobs[job_id][k]
              /\ job_id \notin DOMAIN jobs => jobs' = jobs ]_vars

C7_Witness ==
    /\ last.op = "update_job"
    /\ last.arg[1] \in DOMAIN jobs
    /\ DOMAIN last.arg[2] = {"processed", "results"}
    /\ jobs[last.arg[1]]["processed"] = 1
    /\ jobs[last.arg[1]]["status"] = "processing"
    /\ \E other \in DOMAIN jobs \ {last.arg[1]} :
          jobs[other]["status"] = "completed"

\* C8: check_status reports, in tenths of a percent, the tenth nearest to
\* processed / total * 100 when total > 0 and 0 otherwise (10 of 40 gives
\* 25.0), reports the stored counters, and leaves store.jobs unchanged.
C8_Progress ==
    [][ (last'.op = "check_status" /\ last'.arg \in DOMAIN jobs)
        => LET processed == jobs[last'.arg]["processed"]
               total == jobs[last'.arg]["total"]
               progress == last'.ret.progress
               diff == progress * total - 1000 * processed
           IN /\ jobs' = jobs
              /\ last'.ret.processed = processed
              /\ last'.ret.total = total
              /\ total > 0 => (2 * diff <= total /\ -2 * diff <= total)
              /\ total <= 0 => progress = 0
              /\ (processed = 10 /\ total = 40) => progress = 250 ]_vars

C8_Witness ==
    /\ last.op = "check_status"
    /\ last.arg \in DOMAIN jobs
    /\ jobs[last.arg]["processed"] = 10
    /\ jobs[last.arg]["total"] = 40
    /\ last.ret.progress = 250

C10_JobsNeverProgress ==
    [][ /\ \A job_id \in DOMAIN jobs :
              job_id \in DOMAIN jobs' /\ jobs'[job_id] = jobs[job_id]
        /\ \A job_id \in DOMAIN jobs' \ DOMAIN jobs :
              /\ last'.op = "start_analysis"
              /\ jobs'[job_id]["status"] = "processing"
              /\ jobs'[job_id]["processed"] = 0
              /\ jobs'[job_id]["total"] = last'.arg.sample_size
              /\ jobs'[job_id]["results"] = <<>>
        /\ \A job_id \in DOMAIN jobs' : jobs'[job_id]["status"] # "completed"
        /\ last'.ret # DownloadReady ]_vars

C10_Witness ==
    /\ last.op = "download_results"
    /\ last.arg \in DOMAIN jobs
    /\ last.ret = ErrNotReady
    /\ jobs[last.arg]["total"] = DefaultSampleSize
    /\ Cardinality(DOMAIN jobs) = 2

====
